---- MODULE Spec2Model ----
(***************************************************************************)
(* enable_aws_adaptive_polling.py as a state machine.                      *)
(*                                                                         *)
(* One run of the tool is: parse the command line, GET the list of        *)
(* AWSCloudWatch integrations, filter it, print the preview, block on the  *)
(* confirmation prompt, PUT every candidate in order, print the report.    *)
(* The backend is the environment: it answers the GET from `store` (or     *)
(* with one of the failures / odd payloads named by `mode`) and keeps the  *)
(* body of every PUT it applies.                                           *)
(*                                                                         *)
(* JSON values are tagged records, so that Python's None / absent key /    *)
(* present-but-null distinctions are kept:                                 *)
(*   JNull, JBool(b), JNum(n), JStr(s), JList(seq), JDict(function).       *)
(* Integration ids are unique within the list (spec.md, section 3); a      *)
(* record may lack its id.                                                 *)
(***************************************************************************)
EXTENDS Integers, Sequences, FiniteSets, TLC

VARIABLES
    mode,               \* how the backend answers the GET of this run
    store,              \* the backend's integration list (JSON items)
    runs,               \* number of the current run (1, 2, ...)
    appliedBefore,      \* ids whose PUT the backend applied in an earlier run
    argv,               \* command line of the current run
    pc,                 \* position of main(): parse, get, prompt, update, exit
    gets,               \* GET requests issued in this run
    results,            \* the items main() iterates over (line 136)
    candidates, filtered_disabled, filtered_cold_poll, filtered_streaming,
    remaining,          \* preview rows (line 156)
    reply,              \* raw line read by input(), NoReply before that
    idx,                \* position of the update loop in candidates
    updated,            \* rows of successful PUTs (line 190)
    puts,               \* PUT requests issued in this run, in order
    out,                \* stdout, as a sequence of messages
    err,                \* stderr, as a sequence of messages
    exitCode            \* process exit status, NotExited while running

vars == <<mode, store, runs, appliedBefore, argv, pc, gets, results, candidates,
          filtered_disabled, filtered_cold_poll, filtered_streaming, remaining,
          reply, idx, updated, puts, out, err, exitCode>>

----------------------------------------------------------------------------
(* Bounds of the model *)

MaxLen == 2
MaxLenTwice == 1
MaxRuns == 2

----------------------------------------------------------------------------
(* JSON / Python values *)

JNull == [t |-> "null"]
JBool(b) == [t |-> "bool", v |-> b]
JNum(n) == [t |-> "num", v |-> n]
JStr(s) == [t |-> "str", v |-> s]
JList(s) == [t |-> "list", v |-> s]
JDict(f) == [t |-> "dict", v |-> f]

None == JNull

\* Python truth value of a JSON scalar
Truthy(x) ==
    CASE x.t = "null" -> FALSE
      [] x.t = "bool" -> x.v
      [] x.t = "num" -> x.v # 0
      [] x.t = "str" -> x.v # ""
      [] OTHER -> TRUE

\* isinstance(item, dict)
IsDict(x) == x.t = "dict"

\* item.get(key, default) on a dict item
Get(item, key, default) ==
    IF key \in DOMAIN item.v THEN item.v[key] ELSE default

\* `key in item`
Has(item, key) == key \in DOMAIN item.v

\* exitCode while the process is still running; <<n>> once it exited with n
NotExited == <<>>
\* reply before input() returned, and the end-of-file input() raises on
NoReply == <<"(none)">>
EndOfFile == <<"(eof)">>

----------------------------------------------------------------------------
(* Inputs: the backend's records, the command lines, the typed replies *)

IdNames == <<"i-1", "i-2", "i-3", "i-4">>
NameNames == <<"prod", "stage", "dev", "test">>

\* What a record may say in each field the filter reads
IdChoices == {"absent", "set"}
EnabledChoices == {"absent", "false", "true"}
ColdPollChoices == {"absent", "null", "set"}
StreamChoices == {"absent", "ENABLED", "DISABLED"}

\* The combinations of the fields: all of false/true x absent/set x
\* absent/ENABLED, with and without an id; and, for a record with an id, an
\* absent enabled flag, a sync state other than ENABLED, and a coldPollRate
\* that is present and null (with and without streaming)
FieldChoices ==
    {c \in [id : IdChoices, en : EnabledChoices, cpr : ColdPollChoices,
            mss : StreamChoices] :
        /\ c.en = "absent" =>
              (c.id = "set" /\ c.cpr = "absent" /\ c.mss = "absent")
        /\ c.mss = "DISABLED" =>
              (c.id = "set" /\ c.en = "true" /\ c.cpr = "absent")
        /\ c.cpr = "null" =>
              (c.id = "set" /\ c.en = "true" /\ c.mss # "DISABLED")}

\* The record at position i of the list, for one choice c of its fields.
\* Every record carries a name and a field the tool knows nothing about.
MkRecord(i, c) ==
    LET keys == {"name", "type"}
                \cup (IF c.id = "set" THEN {"id"} ELSE {})
                \cup (IF c.en # "absent" THEN {"enabled"} ELSE {})
                \cup (IF c.cpr # "absent" THEN {"coldPollRate"} ELSE {})
                \cup (IF c.mss # "absent" THEN {"metricStreamsSyncState"} ELSE {})
    IN JDict([k \in keys |->
            CASE k = "name" -> JStr(NameNames[i])
              [] k = "type" -> JStr("AWSCloudWatch")
              [] k = "id" -> JStr(IdNames[i])
              [] k = "enabled" -> JBool(c.en = "true")
              [] k = "coldPollRate" -> IF c.cpr = "null" THEN JNull ELSE JNum(300000)
              [] k = "metricStreamsSyncState" -> JStr(c.mss)])

\* What the list may hold at position i: a record, or something that is no
\* JSON object
Items(i) == {JStr("junk")} \cup {MkRecord(i, c) : c \in FieldChoices}

RECURSIVE StoresOfLen(_)
StoresOfLen(n) ==
    IF n = 0 THEN {<<>>}
    ELSE {Append(s, x) : s \in StoresOfLen(n - 1), x \in Items(n)}

Stores == UNION {StoresOfLen(n) : n \in 0..MaxLen}

MinuteChoices == {0, 1, 15}
Argvs == [coldPollRateMinutes : MinuteChoices, includeDisabled : BOOLEAN,
          overrideExisting : BOOLEAN]

Replies == {<<"y">>, <<" ", "Y", "e", "S", " ">>, <<>>, <<"n">>,
            <<"y", "e", "s", "s">>}

\* How the backend answers the GET
GetModes == {"ok", "HTTPError", "URLError", "JSONDecodeError", "empty_body",
             "not_object", "no_results", "results_null", "results_number",
             "results_string", "results_object"}

\* How the backend answers a PUT
PutOutcomes == {"ok", "HTTPError", "JSONDecodeError"}

----------------------------------------------------------------------------
(* http_request *)

\* Variant: the HTTPError handler returns instead of raising
http_request_swallows_http_error(outcome) ==
    outcome \in {"URLError", "JSONDecodeError"}

\* Whether http_request raises when the exchange ends the given way:
\* HTTPError and URLError are re-raised as RuntimeError, a body that is not
\* JSON makes json.loads raise, and nothing catches that.
http_request_raises(outcome) ==
    outcome \in {"HTTPError", "URLError", "JSONDecodeError"}

\* The exception http_request raises, as the text str(exc) begins with
http_request_error(outcome) ==
    CASE outcome = "HTTPError" -> "HTTP <code> for <url>: <body>"
      [] outcome = "URLError" -> "Request failed for <url>: <reason>"
      [] outcome = "JSONDecodeError" -> "Expecting value: line 1 column 1 (char 0)"

\* The decoded body of a 2xx answer to the GET; None for an empty body (and
\* for the answers that decode nothing)
GetPayload(m, s) ==
    CASE m = "ok" -> JDict([results |-> JList(s)])
      [] m = "empty_body" -> None
      [] m = "not_object" -> JList(s)
      [] m = "no_results" -> JDict([count |-> JNum(0)])
      [] m = "results_null" -> JDict([results |-> JNull])
      [] m = "results_number" -> JDict([results |-> JNum(7)])
      [] m = "results_string" -> JDict([results |-> JStr("ab")])
      [] m = "results_object" -> JDict([results |-> JDict([error |-> JStr("x")])])
      [] OTHER -> None

\* The backend after it applied PUT /v2/integration/{id} with the body
StorePut(s, id, body) ==
    [i \in DOMAIN s |->
        IF IsDict(s[i]) /\ Get(s[i], "id", None) = id THEN body ELSE s[i]]

\* Whether the backend applied a PUT that ended the given way: a 2xx answer
\* whose body is not JSON comes from a backend that did apply it.
PutApplied(outcome) == outcome \in {"ok", "JSONDecodeError"}

----------------------------------------------------------------------------
(* Python's len() and iteration over a decoded JSON value *)

\* The characters of the strings the model iterates over
Chars(str) ==
    CASE str = "" -> <<>>
      [] str = "ab" -> <<"a", "b">>

RECURSIVE SetToSeq(_)
SetToSeq(S) ==
    IF S = {} THEN <<>>
    ELSE LET x == CHOOSE y \in S : TRUE IN <<x>> \o SetToSeq(S \ {x})

\* len(x) raises TypeError for None, booleans and numbers
PyLenRaises(x) == x.t \notin {"list", "str", "dict"}

\* for item in x: a list yields its elements, a string its characters, a
\* dict its keys
PyIter(x) ==
    CASE x.t = "list" -> x.v
      [] x.t = "str" -> [i \in 1..Len(Chars(x.v)) |-> JStr(Chars(x.v)[i])]
      [] x.t = "dict" -> LET ks == SetToSeq(DOMAIN x.v)
                         IN [i \in 1..Len(ks) |-> JStr(ks[i])]

PyLen(x) == Len(PyIter(x))

----------------------------------------------------------------------------
(* format_minutes, print_table, print_updated: stdout as messages *)

\* round(v / 60000, 2) in hundredths, halves to even
RoundHundredths(v) ==
    LET q == v \div 600
        r == v % 600
    IN IF 2 * r > 600 \/ (2 * r = 600 /\ q % 2 = 1) THEN q + 1 ELSE q

\* float(value) fails for a list, a dict and a string that spells no number;
\* the strings of the model spell none
format_minutes(value, missing_label) ==
    IF value = None THEN
        (IF missing_label # None /\ Truthy(missing_label) THEN missing_label
         ELSE JStr(""))
    ELSE IF value.t \notin {"num", "bool"} THEN JStr("")
    ELSE LET n == IF value.t = "bool" THEN (IF value.v THEN 1 ELSE 0) ELSE value.v
         IN IF n >= 1000 /\ n % 60000 # 0
            THEN [t |-> "decimal", hundredths |-> RoundHundredths(n)]
            ELSE JStr(ToString(IF n >= 1000 THEN n \div 60000 ELSE n))

\* name or ""
OrEmpty(name) == IF Truthy(name) THEN name ELSE JStr("")

\* The table print_table prints (column widths left out): nothing for no
\* rows, else the header and one line per row.
print_table(rows, show_cold_poll_rate, missing_label) ==
    IF rows = <<>> THEN <<>>
    ELSE IF show_cold_poll_rate THEN
        <<[msg |-> "table",
           headers |-> <<"ID", "NAME", "COLD_POLL_RATE">>,
           lines |-> [i \in DOMAIN rows |->
                        <<rows[i].rid, OrEmpty(rows[i].name),
                          format_minutes(rows[i].minutes, missing_label)>>]]>>
    ELSE
        <<[msg |-> "table",
           headers |-> <<"ID", "NAME">>,
           lines |-> [i \in DOMAIN rows |->
                        <<rows[i].rid, OrEmpty(rows[i].name)>>]]>>

print_updated(rows, total_expected, show_cold_poll_rate, target_minutes) ==
    IF total_expected # 0 /\ Len(rows) = total_expected THEN
        <<[msg |-> "All updates succeeded", minutes |-> target_minutes]>>
    ELSE IF rows # <<>> THEN
        <<[msg |-> "Updated", n |-> Len(rows)]>>
        \o print_table(rows, show_cold_poll_rate, None)
    ELSE <<[msg |-> "Updated", n |-> 0]>>

----------------------------------------------------------------------------
(* main: the eligibility filter *)

\* line 129
ResultsOf(payload) ==
    IF IsDict(payload) THEN Get(payload, "results", JList(<<>>))
    ELSE JList(<<>>)

\* line 139
SkipDisabled(item, a) ==
    ~a.includeDisabled /\ ~Truthy(Get(item, "enabled", JBool(FALSE)))

\* Variant: any present coldPollRate key counts as set, null included
SkipColdPollOnPresence(item, a) ==
    ~a.overrideExisting /\ Has(item, "coldPollRate")

\* Variant: the override flag is read the wrong way round
SkipColdPollInverted(item, a) ==
    a.overrideExisting /\ Has(item, "coldPollRate")
        /\ Get(item, "coldPollRate", None) # None

\* line 144
SkipColdPoll(item, a) ==
    ~a.overrideExisting /\ Has(item, "coldPollRate")
        /\ Get(item, "coldPollRate", None) # None

\* Variant: overrideExisting lets streaming integrations through
SkipStreamingUnlessOverride(item, a) ==
    ~a.overrideExisting
        /\ Get(item, "metricStreamsSyncState", None) = JStr("ENABLED")

\* line 149
SkipStreaming(item, a) ==
    Get(item, "metricStreamsSyncState", None) = JStr("ENABLED")

\* What a filter branch appends to its list: the id, when the record has one
AppendId(list, item) ==
    LET integ_id == Get(item, "id", None)
    IN IF Truthy(integ_id) THEN Append(list, integ_id) ELSE list

NoBuckets ==
    [candidates |-> <<>>, filtered_disabled |-> <<>>,
     filtered_cold_poll |-> <<>>, filtered_streaming |-> <<>>]

\* One pass of the loop body of lines 136-154
FilterItem(b, item, a) ==
    IF ~IsDict(item) THEN b
    ELSE IF SkipDisabled(item, a) THEN
        [b EXCEPT !.filtered_disabled = AppendId(@, item)]
    ELSE IF SkipColdPoll(item, a) THEN
        [b EXCEPT !.filtered_cold_poll = AppendId(@, item)]
    ELSE IF SkipStreaming(item, a) THEN
        [b EXCEPT !.filtered_streaming = AppendId(@, item)]
    ELSE [b EXCEPT !.candidates = Append(@, item)]

RECURSIVE FilterFrom(_, _, _, _)
FilterFrom(b, items, i, a) ==
    IF i > Len(items) THEN b
    ELSE FilterFrom(FilterItem(b, items[i], a), items, i + 1, a)

\* The four lists after the loop of lines 136-154
Filter(items, a) == FilterFrom(NoBuckets, items, 1, a)

\* Variant: the preview rows are built back to front
RECURSIVE RemainingReversedFrom(_, _)
RemainingReversedFrom(cands, i) ==
    IF i > Len(cands) THEN <<>>
    ELSE RemainingReversedFrom(cands, i + 1)
         \o (IF Truthy(Get(cands[i], "id", None))
             THEN <<[rid |-> Get(cands[i], "id", None),
                     name |-> Get(cands[i], "name", None),
                     minutes |-> Get(cands[i], "coldPollRate", None)]>>
             ELSE <<>>)

RemainingReversed(cands) == RemainingReversedFrom(cands, 1)

\* lines 156-160
RECURSIVE RemainingFrom(_, _)
RemainingFrom(cands, i) ==
    IF i > Len(cands) THEN <<>>
    ELSE (IF Truthy(Get(cands[i], "id", None))
          THEN <<[rid |-> Get(cands[i], "id", None),
                  name |-> Get(cands[i], "name", None),
                  minutes |-> Get(cands[i], "coldPollRate", None)]>>
          ELSE <<>>)
         \o RemainingFrom(cands, i + 1)

Remaining(cands) == RemainingFrom(cands, 1)

\* lines 162-176: the lines naming what was filtered out
FilterReport(b, a) ==
    (IF ~a.includeDisabled /\ b.filtered_disabled # <<>>
     THEN <<[msg |-> "Filtered out disabled integrations",
             ids |-> b.filtered_disabled]>> ELSE <<>>)
    \o (IF ~a.overrideExisting /\ b.filtered_cold_poll # <<>>
        THEN <<[msg |-> "Filtered out integrations with cold poll rate already set",
                ids |-> b.filtered_cold_poll]>> ELSE <<>>)
    \o (IF b.filtered_streaming # <<>>
        THEN <<[msg |-> "Filtered out integrations with metricStreamsSyncState==ENABLED",
                ids |-> b.filtered_streaming]>> ELSE <<>>)

----------------------------------------------------------------------------
(* main: the confirmation prompt *)

Whitespace == {" ", "\t", "\n"}

\* str.strip()
RECURSIVE LStrip(_)
LStrip(str) ==
    IF str # <<>> /\ Head(str) \in Whitespace THEN LStrip(Tail(str)) ELSE str

RECURSIVE RStrip(_)
RStrip(str) ==
    IF str # <<>> /\ str[Len(str)] \in Whitespace
    THEN RStrip(SubSeq(str, 1, Len(str) - 1)) ELSE str

Strip(str) == RStrip(LStrip(str))

\* str.lower(), on the letters the replies use
LowerChar(c) ==
    CASE c = "Y" -> "y" [] c = "E" -> "e" [] c = "S" -> "s" [] c = "N" -> "n"
      [] OTHER -> c

Lower(str) == [i \in DOMAIN str |-> LowerChar(str[i])]

\* Variant: any line that starts with y is taken as a yes
AffirmativeByFirstLetter(raw) ==
    Lower(Strip(raw)) # <<>> /\ Lower(Strip(raw))[1] = "y"

\* line 183: reply in ("y", "yes"), reply being stripped and lower-cased
Affirmative(raw) ==
    Lower(Strip(raw)) \in {<<"y">>, <<"y", "e", "s">>}

----------------------------------------------------------------------------
(* main: the update loop *)

\* Variant: the body is rebuilt from the fields the tool knows
PutBodyKnownFields(item, minutes) ==
    JDict([k \in (DOMAIN item.v \cap {"id", "name", "enabled",
                                       "metricStreamsSyncState"})
                    \cup {"coldPollRate"} |->
            IF k = "coldPollRate" THEN JNum(minutes * 60000) ELSE item.v[k]])

\* lines 197-198: body = dict(item); body["coldPollRate"] = minutes * 60000
PutBody(item, minutes) ==
    JDict([k \in DOMAIN item.v \cup {"coldPollRate"} |->
            IF k = "coldPollRate" THEN JNum(minutes * 60000) ELSE item.v[k]])

\* The candidate after lines 197-198: dict(item) is a copy, so writing the
\* body leaves the candidate as it was
ItemAfterBody(item, minutes) == item

\* Variant: the loop carries on after a failed PUT
PutAbortsNever(outcome) == FALSE

\* lines 200-204: an exception of the PUT leaves the loop (except: raise)
PutAborts(outcome) == http_request_raises(outcome)

\* lines 216-218: what the outermost handler writes to stderr
TopLevelError(text) == [msg |-> "Error: ", text |-> text]

----------------------------------------------------------------------------
(* The state machine *)

FreshRun ==
    /\ pc = "parse"
    /\ gets = 0
    /\ results = <<>>
    /\ candidates = <<>>
    /\ filtered_disabled = <<>>
    /\ filtered_cold_poll = <<>>
    /\ filtered_streaming = <<>>
    /\ remaining = <<>>
    /\ reply = NoReply
    /\ idx = 0
    /\ updated = <<>>
    /\ puts = <<>>
    /\ out = <<>>
    /\ err = <<>>
    /\ exitCode = NotExited

\* A run whose GET does not return the list, or whose command line is
\* rejected, never reads the backend's list: it starts from the empty one.
Init ==
    /\ mode \in GetModes
    /\ argv \in Argvs
    /\ store \in (IF mode = "ok" /\ argv.coldPollRateMinutes >= 1
                  THEN Stores ELSE {<<>>})
    /\ runs = 1
    /\ appliedBefore = {}
    /\ FreshRun

\* lines 121-123: parse_args, and parser.error for a rate below 1
ParseArgs ==
    /\ pc = "parse"
    /\ IF argv.coldPollRateMinutes < 1
       THEN /\ pc' = "exit"
            /\ exitCode' = <<2>>
            /\ err' = Append(err, [msg |-> "error: ",
                        text |-> "--coldPollRateMinutes must be a positive value"])
       ELSE /\ pc' = "get"
            /\ UNCHANGED <<exitCode, err>>
    /\ UNCHANGED <<mode, store, runs, appliedBefore, argv, gets, results,
                   candidates, filtered_disabled, filtered_cold_poll,
                   filtered_streaming, remaining, reply, idx, updated, puts, out>>

\* lines 128-188, up to the blocking input(): the GET, the filter, the preview
Fetch ==
    /\ pc = "get"
    /\ gets' = gets + 1
    /\ IF http_request_raises(mode) THEN
          /\ pc' = "exit"
          /\ exitCode' = <<1>>
          /\ err' = Append(err, TopLevelError(http_request_error(mode)))
          /\ UNCHANGED <<results, candidates, filtered_disabled, filtered_cold_poll,
                         filtered_streaming, remaining, out>>
       ELSE IF PyLenRaises(ResultsOf(GetPayload(mode, store))) THEN
          /\ pc' = "exit"
          /\ exitCode' = <<1>>
          /\ err' = Append(err, TopLevelError("object of type <type> has no len()"))
          /\ UNCHANGED <<results, candidates, filtered_disabled, filtered_cold_poll,
                         filtered_streaming, remaining, out>>
       ELSE
          LET items == PyIter(ResultsOf(GetPayload(mode, store)))
              b == Filter(items, argv)
              rem == Remaining(b.candidates)
              found == <<[msg |-> "Found", n |-> PyLen(ResultsOf(GetPayload(mode, store)))]>>
                       \o FilterReport(b, argv)
          IN /\ results' = items
             /\ candidates' = b.candidates
             /\ filtered_disabled' = b.filtered_disabled
             /\ filtered_cold_poll' = b.filtered_cold_poll
             /\ filtered_streaming' = b.filtered_streaming
             /\ remaining' = rem
             /\ UNCHANGED err
             /\ IF rem # <<>> THEN
                   /\ out' = out \o found
                             \o <<[msg |-> "queued for update", n |-> Len(rem)]>>
                             \o print_table(rem, argv.overrideExisting, JStr("none"))
                             \o <<[msg |-> "Proceed with updates? [y/N]: "]>>
                   /\ pc' = "prompt"
                   /\ UNCHANGED exitCode
                ELSE
                   /\ out' = out \o found
                             \o <<[msg |-> "No integrations meet the provided criteria. No updates performed."]>>
                   /\ pc' = "exit"
                   /\ exitCode' = <<0>>
    /\ UNCHANGED <<mode, store, runs, appliedBefore, argv, reply, idx, updated, puts>>

\* lines 181-185: input() returns the typed line, or raises EOFError
Confirm(raw) ==
    /\ pc = "prompt"
    /\ reply' = raw
    /\ IF raw = EndOfFile THEN
          /\ pc' = "exit"
          /\ exitCode' = <<1>>
          /\ err' = Append(err, TopLevelError("EOF when reading a line"))
          /\ UNCHANGED <<out, idx>>
       ELSE IF ~Affirmative(raw) THEN
          /\ pc' = "exit"
          /\ exitCode' = <<0>>
          /\ out' = Append(out, [msg |-> "Aborted. No updates performed."])
          /\ UNCHANGED <<err, idx>>
       ELSE
          /\ pc' = "update"
          /\ idx' = 1
          /\ UNCHANGED <<out, err, exitCode>>
    /\ UNCHANGED <<mode, store, runs, appliedBefore, argv, gets, results,
                   candidates, filtered_disabled, filtered_cold_poll,
                   filtered_streaming, remaining, updated, puts>>

\* lines 193-208: one pass of the update loop, the PUT ending as `outcome`
UpdateStep(outcome) ==
    /\ pc = "update"
    /\ idx <= Len(candidates)
    /\ LET item == candidates[idx]
           integ_id == Get(item, "id", None)
           minutes == argv.coldPollRateMinutes
           body == PutBody(item, minutes)
       IN IF ~Truthy(integ_id) THEN
             /\ idx' = idx + 1
             /\ UNCHANGED <<store, candidates, updated, puts, out, err, pc, exitCode>>
          ELSE
             /\ puts' = Append(puts, [method |-> "PUT", path |-> "/v2/integration/",
                                      id |-> integ_id, body |-> body,
                                      outcome |-> outcome])
             /\ store' = IF PutApplied(outcome)
                         THEN StorePut(store, integ_id, body) ELSE store
             /\ candidates' = [candidates EXCEPT ![idx] = ItemAfterBody(item, minutes)]
             /\ IF PutAborts(outcome) THEN
                   /\ out' = out \o <<[msg |-> "Update FAILED before completion."]>>
                             \o print_updated(updated, Len(candidates),
                                              argv.overrideExisting, minutes)
                   /\ err' = Append(err, TopLevelError(http_request_error(outcome)))
                   /\ pc' = "exit"
                   /\ exitCode' = <<1>>
                   /\ UNCHANGED <<updated, idx>>
                ELSE
                   /\ updated' = Append(updated, [rid |-> integ_id,
                                                  name |-> Get(item, "name", None),
                                                  minutes |-> JNum(minutes)])
                   /\ idx' = idx + 1
                   /\ UNCHANGED <<out, err, pc, exitCode>>
    /\ UNCHANGED <<mode, runs, appliedBefore, argv, gets, results,
                   filtered_disabled, filtered_cold_poll, filtered_streaming,
                   remaining, reply>>

\* line 210: the loop ended without an exception
Finish ==
    /\ pc = "update"
    /\ idx > Len(candidates)
    /\ out' = out \o print_updated(updated, Len(candidates), argv.overrideExisting,
                                   argv.coldPollRateMinutes)
    /\ pc' = "exit"
    /\ exitCode' = <<0>>
    /\ UNCHANGED <<mode, store, runs, appliedBefore, argv, gets, results,
                   candidates, filtered_disabled, filtered_cold_poll,
                   filtered_streaming, remaining, reply, idx, updated, puts, err>>

\* The tool is started again, against the backend as the last run left it
Rerun(a) ==
    /\ pc = "exit"
    /\ runs < MaxRuns
    /\ runs' = runs + 1
    /\ appliedBefore' = appliedBefore \cup
            {puts[i].id : i \in {j \in DOMAIN puts : PutApplied(puts[j].outcome)}}
    /\ argv' = a
    /\ pc' = "parse"
    /\ gets' = 0
    /\ results' = <<>>
    /\ candidates' = <<>>
    /\ filtered_disabled' = <<>>
    /\ filtered_cold_poll' = <<>>
    /\ filtered_streaming' = <<>>
    /\ remaining' = <<>>
    /\ reply' = NoReply
    /\ idx' = 0
    /\ updated' = <<>>
    /\ puts' = <<>>
    /\ out' = <<>>
    /\ err' = <<>>
    /\ exitCode' = NotExited
    /\ UNCHANGED <<mode, store>>

Next ==
    \/ ParseArgs
    \/ Fetch
    \/ \E raw \in Replies \cup {EndOfFile} : Confirm(raw)
    \/ \E outcome \in PutOutcomes : UpdateStep(outcome)
    \/ Finish

Spec == Init /\ [][Next]_vars

NextTwice ==
    \/ Next
    \/ \E a \in Argvs : Rerun(a)

\* Runs in a row start from a shorter list
InitTwice ==
    /\ Init
    /\ Len(store) <= MaxLenTwice

SpecTwice == InitTwice /\ [][NextTwice]_vars

----------------------------------------------------------------------------
(* Vocabulary of the properties *)

\* The typed lines that are "y" or "yes" once trimmed and lower-cased
AffirmativeLines == {<<"y">>, <<" ", "Y", "e", "S", " ">>}

\* A line was read at the prompt
LineRead == reply # NoReply /\ reply # EndOfFile

HasMsg(o, m) == \E i \in DOMAIN o : o[i].msg = m

\* The ids of the preview table as printed, top to bottom
PreviewIds ==
    IF \E i \in DOMAIN out : out[i].msg = "queued for update"
    THEN LET i == CHOOSE i \in DOMAIN out : out[i].msg = "queued for update"
             lines == out[i + 1].lines
         IN [k \in DOMAIN lines |-> lines[k][1]]
    ELSE <<>>

\* The record's id, JNull when it has none
IdField(item) == IF "id" \in DOMAIN item.v THEN item.v["id"] ELSE JNull

HasId(item) == IdField(item) # JNull /\ IdField(item) # JStr("")

IsStreaming(item) ==
    /\ "metricStreamsSyncState" \in DOMAIN item.v
    /\ item.v["metricStreamsSyncState"] = JStr("ENABLED")

ColdPollIsSet(item) ==
    /\ "coldPollRate" \in DOMAIN item.v
    /\ item.v["coldPollRate"] # JNull

IsEnabled(item) ==
    /\ "enabled" \in DOMAIN item.v
    /\ item.v["enabled"] = JBool(TRUE)

\* The records of the GET response
Records == {j \in DOMAIN results : results[j].t = "dict"}

Count(seq, x) == Cardinality({i \in DOMAIN seq : seq[i] = x})

----------------------------------------------------------------------------
(* C1 *)

\* C1: a record of the GET response whose metricStreamsSyncState is
\* "ENABLED" is never a candidate, whatever the flags: it is not in the
\* candidate list, its id is in no row of the preview table, and no PUT is
\* issued for its id.
C1_StreamingNeverCandidate ==
    \A j \in Records :
        IsStreaming(results[j]) =>
            /\ \A k \in DOMAIN candidates : candidates[k] # results[j]
            /\ \A k \in DOMAIN PreviewIds : PreviewIds[k] # IdField(results[j])
            /\ \A k \in DOMAIN puts : puts[k].id # IdField(results[j])

\* A run with both override flags set that updated something next to an
\* enabled streaming record with an id
C1_Witness ==
    /\ pc = "exit"
    /\ argv.includeDisabled /\ argv.overrideExisting
    /\ puts # <<>>
    /\ \E j \in Records :
          IsStreaming(results[j]) /\ HasId(results[j]) /\ IsEnabled(results[j])

----------------------------------------------------------------------------
(* C2 *)

\* C2: when the line read at the prompt is anything but "y" or "yes" after
\* trimming and lower-casing (the empty line included), the run issues no
\* PUT, prints the "Aborted" message last and exits with code 0.
C2_DeclineAborts ==
    (LineRead /\ reply \notin AffirmativeLines) =>
        /\ pc = "exit"
        /\ puts = <<>>
        /\ out[Len(out)].msg = "Aborted. No updates performed."
        /\ exitCode = <<0>>
        /\ store = [j \in DOMAIN store |-> results[j]]

\* A declined preview of two rows, the line starting with "yes"
C2_Witness ==
    /\ pc = "exit"
    /\ reply = <<"y", "e", "s", "s">>
    /\ Len(remaining) = 2

----------------------------------------------------------------------------
(* C3 *)

Buckets == {"candidate", "filtered_disabled", "filtered_cold_poll_set",
            "filtered_streaming"}

\* The bucket the stated rules give a record, from its enabled, coldPollRate
\* and metricStreamsSyncState fields and the two flags alone
BucketOf(item, includeDisabled, overrideExisting) ==
    IF ~includeDisabled /\ ~IsEnabled(item) THEN "filtered_disabled"
    ELSE IF ~overrideExisting /\ ColdPollIsSet(item) THEN "filtered_cold_poll_set"
    ELSE IF IsStreaming(item) THEN "filtered_streaming"
    ELSE "candidate"

\* The ids the run placed in a bucket, in order
Placed(bucket) ==
    CASE bucket = "candidate" -> [k \in DOMAIN remaining |-> remaining[k].rid]
      [] bucket = "filtered_disabled" -> filtered_disabled
      [] bucket = "filtered_cold_poll_set" -> filtered_cold_poll
      [] bucket = "filtered_streaming" -> filtered_streaming

\* Record j is placed once in the bucket the rules give it and in no other
PlacedByRule(j) ==
    \A bucket \in Buckets :
        Count(Placed(bucket), IdField(results[j])) =
            Cardinality({i \in Records :
                /\ IdField(results[i]) = IdField(results[j])
                /\ BucketOf(results[i], argv.includeDisabled,
                            argv.overrideExisting) = bucket})

\* C3 as stated: every record of the GET response, with or without an id,
\* is placed in exactly one of the four buckets, the one the rules give it.
C3_EveryRecordInOneBucket ==
    pc \in {"prompt", "update", "exit"} => \A j \in Records : PlacedByRule(j)

\* C3, amended: every record that has an id is placed in exactly one of the
\* four buckets, decided by its enabled, coldPollRate and
\* metricStreamsSyncState fields and the two flags alone; a record without
\* an id is listed in no bucket (every listed entry is the id of a record).
C3_RecordWithIdInOneBucket ==
    pc \in {"prompt", "update", "exit"} =>
        /\ \A j \in Records : HasId(results[j]) => PlacedByRule(j)
        /\ \A bucket \in Buckets : \A k \in DOMAIN Placed(bucket) :
              \E j \in Records :
                  HasId(results[j]) /\ IdField(results[j]) = Placed(bucket)[k]

\* Two records with ids that the rules send to different buckets, one of
\* them previewed
C3_Witness ==
    /\ pc = "prompt"
    /\ \E i, j \in Records :
          /\ HasId(results[i]) /\ HasId(results[j])
          /\ BucketOf(results[i], argv.includeDisabled, argv.overrideExisting)
                = "filtered_streaming"
          /\ BucketOf(results[j], argv.includeDisabled, argv.overrideExisting)
                = "candidate"

----------------------------------------------------------------------------
(* C4 *)

\* C4: with overrideExisting off, no PUT of the run is for an integration
\* whose coldPollRate was non-null in the backend when the run did its GET;
\* so a run after another issues no PUT for an integration an earlier run
\* updated, and leaves that integration as it was in the backend.
C4_NoPutWhenColdPollSet ==
    ~argv.overrideExisting =>
        /\ \A k \in DOMAIN puts : \A j \in Records :
              IdField(results[j]) = puts[k].id => ~ColdPollIsSet(results[j])
        /\ \A k \in DOMAIN puts : puts[k].id \notin appliedBefore
        /\ \A j \in Records :
              IdField(results[j]) \in appliedBefore => store[j] = results[j]

\* A second run without the override that filtered out, as already set, the
\* integration the first run updated
C4_Witness ==
    /\ runs = 2
    /\ pc = "exit"
    /\ ~argv.overrideExisting
    /\ \E k \in DOMAIN filtered_cold_poll : filtered_cold_poll[k] \in appliedBefore

----------------------------------------------------------------------------
(* C5 *)

\* C5: every PUT goes to /v2/integration/{id} of its candidate's own id,
\* with the record as the GET returned it in every field but coldPollRate,
\* which is coldPollRateMinutes * 60000; no field is added, removed or
\* changed otherwise, and the candidates in memory stay as received.
C5_PutBodyIsRecordWithRate ==
    /\ \A k \in DOMAIN puts :
          /\ puts[k].method = "PUT"
          /\ puts[k].path = "/v2/integration/"
          /\ \E j \in Records :
                /\ IdField(results[j]) = puts[k].id
                /\ puts[k].body.t = "dict"
                /\ DOMAIN puts[k].body.v = DOMAIN results[j].v \cup {"coldPollRate"}
                /\ \A f \in DOMAIN results[j].v \ {"coldPollRate"} :
                      puts[k].body.v[f] = results[j].v[f]
                /\ puts[k].body.v["coldPollRate"]
                      = JNum(argv.coldPollRateMinutes * 60000)
    /\ \A k \in DOMAIN candidates : \E j \in Records : candidates[k] = results[j]

\* A PUT that added the coldPollRate field to a record that had none, and
\* one that overwrote a rate already set
C5_Witness ==
    /\ \E k \in DOMAIN puts : \E j \in Records :
          /\ IdField(results[j]) = puts[k].id
          /\ "coldPollRate" \notin DOMAIN results[j].v
    /\ \E k \in DOMAIN puts : \E j \in Records :
          /\ IdField(results[j]) = puts[k].id
          /\ ColdPollIsSet(results[j])

----------------------------------------------------------------------------
(* C6 *)

\* The update phase ran: the typed line was an affirmative one
UpdatePhase == LineRead /\ reply \in AffirmativeLines

\* C6 as stated: a failed PUT does not block the rest of the batch, so a
\* run that entered the update phase ends with a PUT attempted for every
\* previewed candidate.
C6_FailureDoesNotBlockBatch ==
    (pc = "exit" /\ UpdatePhase) =>
        \A i \in DOMAIN remaining :
            \E k \in DOMAIN puts : puts[k].id = remaining[i].rid

\* C6, amended: a failed PUT ends the batch. It is the last PUT of the run:
\* no PUT is attempted for a later candidate, the failure banner and the
\* report of what was updated so far are printed, and the run exits with 1.
C6_FailedPutEndsBatch ==
    /\ \A k \in DOMAIN puts : k < Len(puts) => puts[k].outcome = "ok"
    /\ (puts # <<>> /\ puts[Len(puts)].outcome # "ok") =>
          /\ pc = "exit"
          /\ exitCode = <<1>>
          /\ HasMsg(out, "Update FAILED before completion.")
          /\ HasMsg(out, "Updated")
          /\ Len(err) = 1 /\ err[1].msg = "Error: "

\* The first of two PUTs failed and the second candidate got none
C6_Witness ==
    /\ pc = "exit"
    /\ Len(remaining) = 2
    /\ Len(puts) = 1
    /\ puts[1].outcome = "HTTPError"

----------------------------------------------------------------------------
(* C7 *)

GetFailed ==
    gets > 0 /\ mode \in {"HTTPError", "URLError", "JSONDecodeError"}

\* C7: when the GET fails (network failure, non-2xx status, or a body that
\* is not JSON) the run issues no PUT, shows no prompt, writes the message
\* prefixed "Error: " to stderr and exits with code 1.
C7_GetFailureAborts ==
    GetFailed =>
        /\ pc = "exit"
        /\ puts = <<>>
        /\ ~HasMsg(out, "Proceed with updates? [y/N]: ")
        /\ reply = NoReply
        /\ Len(err) = 1 /\ err[1].msg = "Error: "
        /\ exitCode = <<1>>

\* The GET was answered 2xx with a body that is not JSON
C7_Witness ==
    /\ pc = "exit"
    /\ gets = 1
    /\ mode = "JSONDecodeError"

----------------------------------------------------------------------------
(* C8 *)

\* C8 as stated: when the decoded GET response has no results field, or one
\* that is not an array (null, a number, a string, an object), the run
\* issues no PUT, prints "No integrations meet the provided criteria" and
\* exits with code 0.
C8_NonArrayResultsIsEmpty ==
    (pc = "exit" /\ gets > 0
        /\ mode \in {"no_results", "results_null", "results_number",
                     "results_string", "results_object"}) =>
        /\ puts = <<>>
        /\ HasMsg(out, "No integrations meet the provided criteria. No updates performed.")
        /\ exitCode = <<0>>

----------------------------------------------------------------------------
(* C9 *)

\* The rows of the candidates whose PUT succeeded, in order
SucceededIds ==
    LET ok == SelectSeq(puts, LAMBDA p : p.outcome = "ok")
    IN [k \in DOMAIN ok |-> ok[k].id]

ReportLines ==
    {i \in DOMAIN out : out[i].msg \in {"All updates succeeded", "Updated"}}

\* C9 as stated: after a confirmed update phase the report is printed once;
\* it is the "All updates succeeded" line naming the target rate exactly
\* when every previewed candidate was updated by a successful PUT, and
\* otherwise the count and table of exactly the integrations whose PUT
\* succeeded.
C9_ReportMatchesOutcome ==
    (pc = "exit" /\ UpdatePhase) =>
        /\ Cardinality(ReportLines) = 1
        /\ LET i == CHOOSE i \in ReportLines : TRUE
           IN IF SucceededIds = PreviewIds
              THEN /\ out[i].msg = "All updates succeeded"
                   /\ out[i].minutes = argv.coldPollRateMinutes
              ELSE /\ out[i].msg = "Updated"
                   /\ out[i].n = Len(SucceededIds)
                   /\ IF SucceededIds = <<>> THEN i = Len(out)
                      ELSE /\ i + 1 = Len(out)
                           /\ out[i + 1].msg = "table"
                           /\ [k \in DOMAIN out[i + 1].lines |-> out[i + 1].lines[k][1]]
                                 = SucceededIds

----------------------------------------------------------------------------
(* C10 *)

\* Position in the GET response of the record with the given id
PositionOf(id) == CHOOSE j \in Records : IdField(results[j]) = id

\* The PUTs come after the one GET and an affirmative line, and their ids
\* are a prefix of the preview's ids, which keep the order of the response
PutsFollowPreview ==
    /\ gets <= 1
    /\ puts # <<>> => (gets = 1 /\ UpdatePhase)
    /\ Len(puts) <= Len(PreviewIds)
    /\ \A k \in DOMAIN puts : puts[k].id = PreviewIds[k]
    /\ \A k \in DOMAIN PreviewIds :
          \E j \in Records : IdField(results[j]) = PreviewIds[k]
    /\ \A k1, k2 \in DOMAIN PreviewIds :
          k1 < k2 => PositionOf(PreviewIds[k1]) < PositionOf(PreviewIds[k2])

\* C10 as stated: every run issues exactly one GET, before every PUT; every
\* PUT follows an affirmative confirmation; the ids PUT are a prefix of the
\* ids of the preview table, in the order of the GET response, one PUT per
\* row at most and none for an id not previewed.
C10_OneGetThenPutsInOrder ==
    /\ pc = "exit" => gets = 1
    /\ PutsFollowPreview

\* C10, amended: every run whose arguments pass validation issues exactly
\* one GET, before every PUT (a run rejected by the argument check issues
\* no request at all); the rest as stated.
C10_ValidRunOneGetThenPutsInOrder ==
    /\ (pc = "exit" /\ exitCode # <<2>>) => gets = 1
    /\ (pc = "exit" /\ exitCode = <<2>>) => (gets = 0 /\ puts = <<>>)
    /\ PutsFollowPreview

\* Both previewed candidates were PUT, in the order of the response
C10_Witness ==
    /\ pc = "exit"
    /\ exitCode = <<0>>
    /\ Len(PreviewIds) = 2
    /\ Len(puts) = 2

====
